---- MODULE Spec2Model ----
(***************************************************************************)
(* A model of the anagramist search engine: Fragment, the validators and   *)
(* the Solver loop (src/anagramist/solver.py, fragment.py) and the durable *)
(* tree store PersistentSearchTree (src/anagramist/persistentsearchtree.py)*)
(*                                                                         *)
(* Python strings are sequences of one-character strings, so that          *)
(* concatenation, prefixes, the space separator and letter case are all    *)
(* computed and not assumed.  A Counter is a function from the alphabet to *)
(* the integers (Counter.subtract may go negative).  A row of the table    *)
(* `visited` is a record; the table is the set of its rows.                *)
(***************************************************************************)
EXTENDS Integers, Sequences, FiniteSets, TLC

VARIABLES
    store,              \* the rows of table `visited`
    op,                 \* the last call made on the store: arguments and return value
    letters,            \* Solver: the string the Solver was constructed with
    c1663,              \* Solver.c1663
    max_iterations,     \* Solver.max_iterations
    max_expansions_per_iteration,
    current_iteration,  \* Solver.current_iteration
    pc,                 \* where a call of Solver.solve stands
    root_candidate,     \* solve: the argument, after the default was applied
    candidate,          \* solve: the local `candidate`
    expansion_count,    \* solve: the local `expansion_count`
    updated_candidates, \* solve: the entries of the last assessment still to be pushed
    selected,           \* solve: what self.select returned in this iteration
    heap,               \* a Heap: its list h, its max_size, and the items given to it
    result              \* how the last call of solve ended: value returned or exception

vars == <<store, op, heap, letters, c1663, max_iterations, max_expansions_per_iteration,
          current_iteration, pc, root_candidate, candidate, expansion_count,
          updated_candidates, selected, result>>

solverVars == <<heap, letters, c1663, max_iterations, max_expansions_per_iteration,
                current_iteration, pc, root_candidate, candidate, expansion_count,
                updated_candidates, selected, result>>

----------------------------------------------------------------------------
(* Characters and strings *)

\* The characters the model uses, in ascending code point order.
AlphaSeq ==
    <<" ", "!", "'", ",", "-", ":", "A", "I", "a", "b", "w", "z">>

Alphabet ==
    {AlphaSeq[i] : i \in DOMAIN AlphaSeq}

\* ord(ch): the position in AlphaSeq stands for the code point (only the order is used).
Ord(ch) ==
    CHOOSE i \in DOMAIN AlphaSeq : AlphaSeq[i] = ch

\* ASCII case folding, as SQLite's LIKE applies it.
Fold(ch) ==
    CASE ch = "A" -> "a"
      [] ch = "I" -> "i"
      [] OTHER -> ch

\* x.startswith(y)
StartsWith(x, y) ==
    /\ Len(y) <= Len(x)
    /\ \A i \in 1..Len(y) : x[i] = y[i]

\* x < y under SQLite's BINARY collation (ORDER BY placed)
StrLess(x, y) ==
    \/ /\ Len(x) < Len(y)
       /\ \A i \in 1..Len(x) : x[i] = y[i]
    \/ \E k \in 1..Len(x) :
          /\ k <= Len(y)
          /\ \A i \in 1..(k - 1) : x[i] = y[i]
          /\ Ord(x[k]) < Ord(y[k])

\* the last n characters of s: s[-n:]
Tail_n(s, n) ==
    IF Len(s) <= n THEN s ELSE SubSeq(s, Len(s) - n + 1, Len(s))

\* sep.join(ws) with sep = " "
RECURSIVE JoinSpace(_)
JoinSpace(ws) ==
    IF Len(ws) = 0 THEN <<>>
    ELSE IF Len(ws) = 1 THEN ws[1]
    ELSE ws[1] \o <<" ">> \o JoinSpace(Tail(ws))

----------------------------------------------------------------------------
(* collections.Counter *)

\* Counter(s): how often each character occurs in s
Counter(s) ==
    [ch \in Alphabet |-> Cardinality({i \in DOMAIN s : s[i] = ch})]

\* Counter.subtract: counts may become negative
Subtract(x, y) ==
    [ch \in Alphabet |-> x[ch] - y[ch]]

RECURSIVE SumFrom(_, _)
SumFrom(x, i) ==
    IF i > Len(AlphaSeq) THEN 0 ELSE x[AlphaSeq[i]] + SumFrom(x, i + 1)

\* Counter.total(): the sum of all counts
Total(x) ==
    SumFrom(x, 1)

\* Counter.__le__: every count of x is at most the count of y
CounterLe(x, y) ==
    \A ch \in Alphabet : x[ch] <= y[ch]

\* Counter.__eq__: a missing key counts as zero
CounterEq(x, y) ==
    \A ch \in Alphabet : x[ch] = y[ch]

\* the keys of Counter(s) in insertion order: first occurrences in s
RECURSIVE FirstSeen(_)
FirstSeen(s) ==
    IF Len(s) = 0 THEN <<>>
    ELSE LET front == FirstSeen(SubSeq(s, 1, Len(s) - 1))
             last == s[Len(s)]
         IN IF \E i \in DOMAIN front : front[i] = last THEN front
            ELSE Append(front, last)

RECURSIVE Repeat(_, _)
Repeat(ch, n) ==
    IF n <= 0 THEN <<>> ELSE <<ch>> \o Repeat(ch, n - 1)

RECURSIVE ElementsIn(_, _)
ElementsIn(x, keys) ==
    IF Len(keys) = 0 THEN <<>>
    ELSE Repeat(keys[1], x[keys[1]]) \o ElementsIn(x, Tail(keys))

\* "".join(x.elements()) for a Counter x copied from the letter bank built from the
\* string `bank`: each key as often as its count, in key order; counts below one are
\* skipped, so keys added by a subtraction (they are negative) never show.
Elements(x, bank) ==
    ElementsIn(x, FirstSeen(bank))

----------------------------------------------------------------------------
(* Fragment *)

\* parse_sentence(candidate_sentence): the tokenizer
RECURSIVE ParseFrom(_, _, _)
ParseFrom(s, i, words) ==
    IF i > Len(s) THEN words
    ELSE LET ch == s[i]
             n == Len(words)
             fresh == IF words[n] # <<>> THEN Append(words, <<>>) ELSE words
         IN IF ch \in {"A", "I", "a", "b", "w", "z", "'", "-"}
            THEN ParseFrom(s, i + 1, [words EXCEPT ![n] = Append(words[n], ch)])
            ELSE IF ch = " "
            THEN ParseFrom(s, i + 1, fresh)
            ELSE ParseFrom(s, i + 1,
                           Append([fresh EXCEPT ![Len(fresh)] = <<ch>>], <<>>))

parse_sentence(s) ==
    LET words == ParseFrom(s, 1, << <<>> >>)
    IN IF words[Len(words)] # <<>> THEN words
       ELSE SubSeq(words, 1, Len(words) - 1)

\* Fragment(candidate_sentence, word): the three attributes
Fragment(s, word) ==
    [sentence |-> s,
     letters |-> [Counter(s) EXCEPT ![" "] = 0],
     words |-> IF word THEN parse_sentence(s) ELSE <<s>>]

\* Fragment(s): `word` defaults to False
Frag(s) ==
    Fragment(s, FALSE)

----------------------------------------------------------------------------
(* PersistentSearchTree *)

\* candidate status codes
OK == 0
INVALID == 1
FULLY_EXPLORED == 5
MANUALLY_INVALID == 7

StatusCodes ==
    {OK, INVALID, FULLY_EXPLORED, MANUALLY_INVALID}

\* float("inf") and float("-inf"), beyond every finite score of the model
PosInf == 1000
NegInf == -1000

Row(placed, remaining, parent, score, cumulative_score, mean_score, status) ==
    [placed |-> placed, remaining |-> remaining, parent |-> parent, score |-> score,
     cumulative_score |-> cumulative_score, mean_score |-> mean_score,
     status |-> status]

\* PRIMARY KEY(placed, remaining)
SameKey(r, s) ==
    r.placed = s.placed /\ r.remaining = s.remaining

\* __len__: SELECT COUNT(*)
StoreLen(st) ==
    Cardinality(st)

\* get: SELECT * WHERE placed = ? LIMIT 1 -- the rows one of which is returned
get(st, placed) ==
    {r \in st : r.placed = placed}

\* get_children: WHERE parent = ?
get_children(st, parent) ==
    {r \in st : r.parent = parent}

\* x LIKE pattern || '%': the default LIKE is case-insensitive for ASCII letters
LikePrefix(x, pattern) ==
    /\ Len(pattern) <= Len(x)
    /\ \A i \in 1..Len(pattern) : Fold(x[i]) = Fold(pattern[i])

\* get_descendents: WHERE placed LIKE parent + " %"
get_descendents(st, parent) ==
    {r \in st : LikePrefix(r.placed, parent \o <<" ">>)}

\* push as a plain INSERT, without the ON CONFLICT clause
pushInsert(st, row) ==
    st \cup {row}

\* the mutant of push: the conflict clause adds to the stored scores
pushAccumulate(st, row) ==
    IF \E r \in st : SameKey(r, row)
    THEN {IF SameKey(r, row)
          THEN [r EXCEPT !.score = row.score,
                         !.cumulative_score = r.cumulative_score + row.cumulative_score,
                         !.mean_score = row.mean_score,
                         !.status = row.status]
          ELSE r : r \in st}
    ELSE st \cup {row}

\* the mutant of push: the conflict is on placed alone and replaces the whole row
pushReplace(st, row) ==
    {r \in st : r.placed # row.placed} \cup {row}

\* push: INSERT ... ON CONFLICT (placed, remaining) DO UPDATE SET score,
\* cumulative_score, mean_score, status
push(st, row) ==
    IF \E r \in st : SameKey(r, row)
    THEN {IF SameKey(r, row)
          THEN [r EXCEPT !.score = row.score,
                         !.cumulative_score = row.cumulative_score,
                         !.mean_score = row.mean_score,
                         !.status = row.status]
          ELSE r : r \in st}
    ELSE st \cup {row}

\* status with the UPDATE widened to the descendants of placed
statusCascade(st, placed, new_status) ==
    LET found == {r \in st : r.placed = placed}
    IN IF found = {} THEN [store |-> st, ret |-> 0]
       ELSE [store |-> {IF r.placed = placed \/ LikePrefix(r.placed, placed \o <<" ">>)
                        THEN [r EXCEPT !.status = new_status]
                        ELSE r : r \in st},
             ret |-> Cardinality(found)]

\* status: entry is the row of SELECT 1, so entry[-1] is the number 1
status(st, placed, new_status) ==
    LET found == {r \in st : r.placed = placed}
        entry == <<1>>
    IN IF found = {} THEN [store |-> st, ret |-> 0]
       ELSE IF entry[Len(entry)] = new_status THEN [store |-> st, ret |-> -1]
       ELSE [store |-> {IF r.placed = placed THEN [r EXCEPT !.status = new_status]
                        ELSE r : r \in st},
             ret |-> Cardinality(found)]

\* trim: the outcomes, one for each row ORDER BY placed may put first
trim(st, placed) ==
    LET rows == {r \in st : LikePrefix(r.placed, placed \o <<" ">>)
                            \/ r.placed = placed}
        firsts == {r \in rows : \A s \in rows : ~StrLess(s.placed, r.placed)}
    IN IF rows = {} THEN {[store |-> st, ret |-> -1]}
       ELSE {LET doomed == IF first.placed = placed THEN rows \ {first} ELSE rows
             IN [store |-> st \ doomed, ret |-> Cardinality(doomed)] : first \in firsts}

----------------------------------------------------------------------------
(* Solver: construction *)

\* the bounds of the model
MaxIterations == 2
MaxExpansions == 2

\* EXPLORATION_SCORE = float(-40)
EXPLORATION_SCORE == -40

\* the strings the model constructs a Solver with (the `letters` argument)
Banks ==
    {<<"a", "b">>, <<"I", "w", "!", "!">>}

\* Solver.vocabulary: the list the model passes as `vocabulary`
vocabulary ==
    << <<"I">>, <<"w">>, <<"!">>, <<"a", "b">>, <<"a">>, <<"b">>, <<":">>, <<",">> >>

InVocabulary(w) ==
    \E i \in DOMAIN vocabulary : vocabulary[i] = w

\* self.letter_bank = Fragment(letters).letters
letter_bank ==
    Frag(letters).letters

\* self.root: "" or, with c1663, "I"
root ==
    IF c1663 THEN <<"I">> ELSE <<>>

\* ascii letters, the set the validators test one-character words against
IsAsciiLetter(ch) ==
    ch \in {"A", "I", "a", "b", "w", "z"}

----------------------------------------------------------------------------
(* Solver: vocabulary filter and validators *)

\* compute_valid_vocab(remaining_letters): the words in vocabulary order
RECURSIVE ValidFrom(_, _)
ValidFrom(remaining_letters, i) ==
    IF i > Len(vocabulary) THEN <<>>
    ELSE LET next_word == Fragment(vocabulary[i], FALSE)
         IN IF ~CounterLe(next_word.letters, remaining_letters)
            THEN ValidFrom(remaining_letters, i + 1)
            ELSE <<next_word.sentence>> \o ValidFrom(remaining_letters, i + 1)

\* compute_valid_vocab without its filter: every word of the vocabulary
compute_valid_vocab_unfiltered(remaining_letters) ==
    vocabulary

compute_valid_vocab(remaining_letters) ==
    ValidFrom(remaining_letters, 1)

\* the punctuation loop with the first two expected marks exchanged
RECURSIVE PunctuationFromExchanged(_, _, _)
PunctuationFromExchanged(words, i, pos) ==
    LET expected_punctuation == <<",", ":", "!", "!">>
    IN IF i > Len(words) THEN "ok"
       ELSE IF Len(words[i]) = 1 /\ ~IsAsciiLetter(words[i][1])
       THEN IF pos + 1 > Len(expected_punctuation) THEN "IndexError"
            ELSE IF expected_punctuation[pos + 1] # words[i][1] THEN "fail"
            ELSE PunctuationFromExchanged(words, i + 1, pos + 1)
       ELSE PunctuationFromExchanged(words, i + 1, pos)

\* the punctuation loop of both validators from word i on, at punctuation_position pos:
\* "ok", "fail" (return False) or "IndexError" (expected_punctuation[4])
RECURSIVE PunctuationFrom(_, _, _)
PunctuationFrom(words, i, pos) ==
    LET expected_punctuation == <<":", ",", "!", "!">>
    IN IF i > Len(words) THEN "ok"
       ELSE IF Len(words[i]) = 1 /\ ~IsAsciiLetter(words[i][1])
       THEN IF pos + 1 > Len(expected_punctuation) THEN "IndexError"
            ELSE IF expected_punctuation[pos + 1] # words[i][1] THEN "fail"
            ELSE PunctuationFrom(words, i + 1, pos + 1)
       ELSE PunctuationFrom(words, i + 1, pos)

\* the word length loop of both validators; word_lengths[pos - 1] at pos = 0 is
\* Python's word_lengths[-1], the last one
WordLengthsOk(words) ==
    LET word_lengths == [i \in DOMAIN words |-> Len(words[i])]
        n == Len(words)
        before(i) == IF i = 1 THEN word_lengths[n] ELSE word_lengths[i - 1]
    IN \A i \in 1..n :
          \/ word_lengths[i] <= 8
          \/ /\ word_lengths[i] = 11
             /\ \/ i = n
                \/ ~(before(i) # 8 /\ word_lengths[i + 1] # 8)

\* soft_validate: "True", "False" or the exception it raises
soft_validate_outcome(s) ==
    LET cand == Frag(s)
        remaining_letters == Subtract(letter_bank, cand.letters)
        total == Total(remaining_letters)
        punctuation == PunctuationFrom(cand.words, 1, 0)
    IN IF \E ch \in Alphabet : remaining_letters[ch] < 0 THEN "False"
       ELSE IF \E i \in DOMAIN cand.words : ~InVocabulary(cand.words[i]) THEN "False"
       ELSE IF /\ total > 0
               /\ ~\E i \in DOMAIN vocabulary :
                      CounterLe(Frag(vocabulary[i]).letters, remaining_letters)
       THEN "False"
       ELSE IF ~c1663 THEN "True"
       ELSE IF cand.words[1] # <<"I">> THEN "False"
       ELSE IF punctuation # "ok"
       THEN (IF punctuation = "fail" THEN "False" ELSE punctuation)
       ELSE IF ~WordLengthsOk(cand.words) THEN "False"
       ELSE IF /\ total = 2
               /\ (cand.sentence[Len(cand.sentence)] # "w" \/ remaining_letters["!"] # 2)
       THEN "False"
       ELSE IF /\ total > 3
               /\ (remaining_letters["w"] = 0 \/ remaining_letters["!"] < 2)
       THEN "False"
       ELSE IF /\ total > 2
               /\ ~\E i \in DOMAIN vocabulary :
                      /\ CounterLe(Frag(vocabulary[i]).letters, remaining_letters)
                      /\ vocabulary[i][Len(vocabulary[i])] = "w"
       THEN "False"
       ELSE "True"

\* the mutant of hard_validate: the comparison with the letter bank is dropped
hard_validate_no_bank(s) ==
    LET placed == Frag(s)
    IN IF \E i \in DOMAIN placed.words : ~InVocabulary(placed.words[i]) THEN "False"
       ELSE "True"

\* hard_validate: "True", "False" or the exception it raises
hard_validate_outcome(s) ==
    LET placed == Frag(s)
        punctuation == PunctuationFrom(placed.words, 1, 0)
    IN IF ~CounterEq(placed.letters, letter_bank) THEN "False"
       ELSE IF \E i \in DOMAIN placed.words : ~InVocabulary(placed.words[i]) THEN "False"
       ELSE IF ~c1663 THEN "True"
       ELSE IF placed.words[1] # <<"I">> THEN "False"
       ELSE IF Tail_n(placed.sentence, 3) # <<"w", "!", "!">> THEN "False"
       ELSE IF punctuation # "ok"
       THEN (IF punctuation = "fail" THEN "False" ELSE punctuation)
       ELSE IF ~WordLengthsOk(placed.words) THEN "False"
       ELSE "True"

soft_validate(s) ==
    soft_validate_outcome(s) = "True"

hard_validate(s) ==
    hard_validate_outcome(s) = "True"

----------------------------------------------------------------------------
(* TransformerOracle.score_candidates: the alignment of tokens to words *)

\* the log scores a token may get from the language model
TokenScores ==
    {-3, -1}

\* str.split(): the runs of non-space characters.  They stand for the stripped
\* tokens of the tokenizer: sub-word tokens carry at most a leading space, so the
\* stripped tokens of a sentence spell its space-separated pieces.
RECURSIVE SplitFrom(_, _, _)
SplitFrom(s, i, acc) ==
    IF i > Len(s) THEN (IF acc[Len(acc)] = <<>> THEN SubSeq(acc, 1, Len(acc) - 1) ELSE acc)
    ELSE IF s[i] = " "
    THEN SplitFrom(s, i + 1, IF acc[Len(acc)] = <<>> THEN acc ELSE Append(acc, <<>>))
    ELSE SplitFrom(s, i + 1, [acc EXCEPT ![Len(acc)] = Append(acc[Len(acc)], s[i])])

Tokens(s) ==
    SplitFrom(s, 1, << <<>> >>)

RECURSIVE Concat(_)
Concat(ws) ==
    IF Len(ws) = 0 THEN <<>> ELSE ws[1] \o Concat(Tail(ws))

\* the while loop of the alignment: how many tokens are popped until the accumulated
\* tokens spell `word`; -1 when scored_tokens.pop(0) raises on the empty list
RECURSIVE Accumulate(_, _, _)
Accumulate(word, tokens, k) ==
    IF Concat(SubSeq(tokens, 1, k)) = word THEN k
    ELSE IF k >= Len(tokens) THEN -1
    ELSE Accumulate(word, tokens, k + 1)

RECURSIVE AlignFrom(_, _, _, _)
AlignFrom(words, i, tokens, s) ==
    IF i > Len(words) THEN [exc |-> "none", scored_words |-> <<>>]
    ELSE LET k == Accumulate(words[i], tokens, 0)
         IN IF k < 0 THEN [exc |-> "IndexError", scored_words |-> <<>>]
            ELSE LET rest == AlignFrom(words, i + 1, SubSeq(tokens, k + 1, Len(tokens)), s)
                 IN [exc |-> rest.exc,
                     scored_words |-> <<[word |-> words[i], score |-> k * s]>>
                                      \o rest.scored_words]

\* score_candidates([placed])[0] when every token scores s
score_candidates(placed, s) ==
    AlignFrom(placed.words, 1, Tokens(placed.sentence), s)

----------------------------------------------------------------------------
(* Solver: select, expansion, assessment *)

\* sample(prefix): the rows one of which is drawn -- status OK, placed rooted at prefix
sample(st, prefix) ==
    {r \in st : r.status = OK /\ StartsWith(r.placed, prefix)}

\* the mutant of select: without a record the candidate itself is returned
select_fallback(st, cand) ==
    IF sample(st, cand) = {} THEN {[exc |-> "none", value |-> cand]}
    ELSE {[exc |-> "none", value |-> r.placed] : r \in sample(st, cand)}

\* select(candidate): record[0], or ValueError when sample returns None
select(st, cand) ==
    IF sample(st, cand) = {} THEN {[exc |-> "ValueError", value |-> <<>>]}
    ELSE {[exc |-> "none", value |-> r.placed] : r \in sample(st, cand)}

\* expansion without its walk: the candidate itself is the leaf
expansion_no_walk(cand) ==
    LET valid == soft_validate_outcome(cand)
    IN {[exc |-> IF valid \in {"True", "False"} THEN "none" ELSE valid, value |-> cand]}

\* expansion(candidate): the leaves the random walk may return
RECURSIVE expansion(_)
expansion(cand) ==
    LET placed == Frag(cand)
        remaining == Subtract(letter_bank, placed.letters)
        valid == soft_validate_outcome(placed.sentence)
        next_words == compute_valid_vocab(remaining)
    IN IF valid \notin {"True", "False"} THEN {[exc |-> valid, value |-> placed.sentence]}
       ELSE IF valid = "False" THEN {[exc |-> "none", value |-> placed.sentence]}
       ELSE IF Len(next_words) = 0 THEN {[exc |-> "none", value |-> placed.sentence]}
       ELSE UNION {expansion(IF cand = <<>> THEN next_words[i]
                             ELSE cand \o <<" ">> \o next_words[i]) :
                   i \in DOMAIN next_words}

\* the mutant of winner_sentence: "!!" is appended in every mode
winner_sentence_always(sentence) ==
    sentence \o <<"!", "!">>

\* assessment, the winner branch: sentence += "!!" with c1663
winner_sentence(sentence) ==
    IF c1663 THEN sentence \o <<"!", "!">> ELSE sentence

\* assessment, the winner branch: del remaining["!"] with c1663
winner_remaining(remaining) ==
    IF c1663 THEN [remaining EXCEPT !["!"] = 0] ELSE remaining

\* fsum(scores) of the first i scored tokens
RECURSIVE SumScores(_, _)
SumScores(scored_tokens, i) ==
    IF i = 0 THEN 0 ELSE scored_tokens[i].score + SumScores(scored_tokens, i - 1)

\* assessment: the entries from the i-th scored token on
RECURSIVE EntriesFrom(_, _)
EntriesFrom(scored_tokens, i) ==
    IF i > Len(scored_tokens) THEN [exc |-> "none", entries |-> <<>>]
    ELSE LET words == [j \in 1..i |-> scored_tokens[j].word]
             sentence == JoinSpace(words)
             parent == JoinSpace(SubSeq(words, 1, i - 1))
             fsum == SumScores(scored_tokens, i)
             remaining == Subtract(letter_bank, Counter(sentence))
             valid == hard_validate_outcome(sentence)
             winner == valid = "True"
             dud == ~winner /\ i = Len(scored_tokens)
             score == IF winner THEN PosInf ELSE IF dud THEN NegInf ELSE fsum
             entry == Row(IF winner THEN winner_sentence(sentence) ELSE sentence,
                          Elements(IF winner THEN winner_remaining(remaining)
                                   ELSE remaining, letters),
                          parent, 0, 0, score, IF dud THEN INVALID ELSE OK)
         IN IF valid \notin {"True", "False"} THEN [exc |-> valid, entries |-> <<>>]
            ELSE IF score = PosInf \/ score = NegInf
            THEN [exc |-> "none", entries |-> <<entry>>]
            ELSE LET rest == EntriesFrom(scored_tokens, i + 1)
                 IN [exc |-> rest.exc, entries |-> <<entry>> \o rest.entries]

\* assessment(candidate) when every token scores s: the entries, or the exception
assessment(cand, s) ==
    LET scored == score_candidates(Frag(cand), s)
    IN IF scored.exc # "none" THEN [exc |-> scored.exc, entries |-> <<>>]
       ELSE EntriesFrom(scored.scored_words, 1)

----------------------------------------------------------------------------
(* The state machine *)

NoRow ==
    Row(<<>>, <<>>, <<>>, 0, 0, 0, OK)

\* no Heap was constructed
NoHeap ==
    [h |-> <<>>, max_size |-> 0, given |-> <<>>, pushed_only |-> TRUE]

NoResult ==
    [kind |-> "none", exc |-> "none", sentence |-> <<>>]

Returned(sentence) ==
    [kind |-> "sentence", exc |-> "none", sentence |-> sentence]

ReturnedNone ==
    [kind |-> "None", exc |-> "none", sentence |-> <<>>]

Raised(exc) ==
    [kind |-> "raise", exc |-> exc, sentence |-> <<>>]

\* a call on the store: its name, its arguments (as a row) and what it returned
Call(name, row, ret) ==
    [name |-> name, row |-> row, ret |-> ret]

\* the state after construction: an empty table and a Solver not yet run
Init ==
    /\ store = {}
    /\ op = Call("none", NoRow, 0)
    /\ letters \in Banks
    /\ c1663 \in BOOLEAN
    /\ max_iterations = MaxIterations
    /\ max_expansions_per_iteration = MaxExpansions
    /\ current_iteration = 0
    /\ pc = "idle"
    /\ root_candidate = <<>>
    /\ candidate = <<>>
    /\ expansion_count = 0
    /\ updated_candidates = <<>>
    /\ selected = <<>>
    /\ heap = NoHeap
    /\ result = NoResult

\* the explicit root_candidate arguments the model calls solve with
RootArguments ==
    {<<"a">>}

\* solve returns or raises: its arguments and locals are gone
Finish(res) ==
    /\ pc' = "idle"
    /\ result' = res
    /\ root_candidate' = <<>>
    /\ candidate' = <<>>
    /\ expansion_count' = 0
    /\ updated_candidates' = <<>>
    /\ selected' = <<>>

\* solve, up to the loop: the default root and the root placeholder
Solve(rc) ==
    LET placed == Frag(root)
        remaining == Subtract(letter_bank, Frag(root).letters)
        row == Row(placed.sentence, Elements(remaining, letters),
                   JoinSpace(SubSeq(placed.words, 1, Len(placed.words) - 1)),
                   EXPLORATION_SCORE, EXPLORATION_SCORE, EXPLORATION_SCORE, 0)
    IN /\ pc = "idle"
       /\ root_candidate' = rc
       /\ IF get(store, root) = {}
          THEN store' = push(store, row) /\ op' = Call("push", row, 0)
          ELSE UNCHANGED <<store, op>>
       /\ pc' = "loop"
       /\ result' = NoResult
       /\ UNCHANGED <<heap, letters, c1663, max_iterations, max_expansions_per_iteration,
                      current_iteration, candidate, expansion_count,
                      updated_candidates, selected>>

\* solve: the iteration budget is used up, return None
BudgetExhausted ==
    /\ pc = "loop"
    /\ current_iteration >= max_iterations
    /\ Finish(ReturnedNone)
    /\ UNCHANGED <<store, op, heap, letters, c1663, max_iterations,
                   max_expansions_per_iteration, current_iteration>>

\* solve: candidate = self.select(root_candidate); expansion_count = 0
Select ==
    /\ pc = "loop"
    /\ current_iteration < max_iterations
    /\ \E out \in select(store, root_candidate) :
          IF out.exc # "none"
          THEN Finish(Raised(out.exc))
          ELSE /\ pc' = "expand"
               /\ candidate' = out.value
               /\ selected' = out.value
               /\ expansion_count' = 0
               /\ UNCHANGED <<result, root_candidate, updated_candidates>>
    /\ UNCHANGED <<store, op, heap, letters, c1663, max_iterations,
                   max_expansions_per_iteration, current_iteration>>

\* solve: candidate = self.expansion(candidate);
\*        updated_candidates = self.assessment(candidate)
Expand ==
    /\ pc = "expand"
    /\ expansion_count < max_expansions_per_iteration
    /\ \E leaf \in expansion(candidate), s \in TokenScores :
          LET assessed == assessment(leaf.value, s)
          IN IF leaf.exc # "none"
             THEN Finish(Raised(leaf.exc))
             ELSE IF assessed.exc # "none"
             THEN Finish(Raised(assessed.exc))
             ELSE /\ pc' = "push"
                  /\ candidate' = leaf.value
                  /\ updated_candidates' = assessed.entries
                  /\ UNCHANGED <<result, root_candidate, expansion_count, selected>>
    /\ UNCHANGED <<store, op, heap, letters, c1663, max_iterations,
                   max_expansions_per_iteration, current_iteration>>

\* solve: one turn of `for c in updated_candidates`: push, and return c[0] when
\* c[-2] is +inf
PushEntry ==
    /\ pc = "push"
    /\ updated_candidates # <<>>
    /\ LET entry == Head(updated_candidates)
       IN /\ store' = push(store, entry)
          /\ op' = Call("push", entry, 0)
          /\ IF entry.mean_score = PosInf
             THEN Finish(Returned(entry.placed))
             ELSE /\ updated_candidates' = Tail(updated_candidates)
                  /\ UNCHANGED <<pc, result, root_candidate, candidate,
                                 expansion_count, selected>>
    /\ UNCHANGED <<heap, letters, c1663, max_iterations, max_expansions_per_iteration,
                   current_iteration>>

\* solve: the for loop is over, expansion_count += 1
ExpansionDone ==
    /\ pc = "push"
    /\ updated_candidates = <<>>
    /\ expansion_count' = expansion_count + 1
    /\ pc' = "expand"
    /\ UNCHANGED <<store, op, heap, letters, c1663, max_iterations,
                   max_expansions_per_iteration, current_iteration, root_candidate,
                   candidate, updated_candidates, selected, result>>

\* solve: the inner while is over, self.current_iteration += 1
IterationDone ==
    /\ pc = "expand"
    /\ expansion_count >= max_expansions_per_iteration
    /\ current_iteration' = current_iteration + 1
    /\ pc' = "loop"
    /\ UNCHANGED <<store, op, heap, letters, c1663, max_iterations,
                   max_expansions_per_iteration, root_candidate, candidate,
                   expansion_count, updated_candidates, selected, result>>

\* the sentences an operator seeds the tree with
SeedPlaced ==
    {<<"a", "b">>, <<"a">>}

\* the rows an operator pushes while no solve runs, written as the solver writes them
SeedRows ==
    {Row(p, Elements(Subtract(letter_bank, Frag(p).letters), letters), <<>>,
         EXPLORATION_SCORE, EXPLORATION_SCORE, EXPLORATION_SCORE, OK) :
     p \in {q \in SeedPlaced : CounterLe(Frag(q).letters, letter_bank)}}

\* an operator (or a test) calls search_tree.push(*row)
OpPush ==
    /\ pc = "idle"
    /\ \E row \in SeedRows :
          /\ store' = push(store, row)
          /\ op' = Call("push", row, 0)
    /\ UNCHANGED solverVars

\* the sentences the operator verbs are called with
OperatorPlaced ==
    {r.placed : r \in store} \cup {<<"a">>}

\* cli candidates --status: search_tree.status(c, status)
OpStatus ==
    /\ pc = "idle"
    /\ \E p \in OperatorPlaced, s \in StatusCodes :
          LET out == status(store, p, s)
          IN /\ store' = out.store
             /\ op' = Call("status", [NoRow EXCEPT !.placed = p, !.status = s], out.ret)
    /\ UNCHANGED solverVars

\* cli candidates --trim: search_tree.trim(c)
OpTrim ==
    /\ pc = "idle"
    /\ \E p \in OperatorPlaced :
          \E out \in trim(store, p) :
             /\ store' = out.store
             /\ op' = Call("trim", [NoRow EXCEPT !.placed = p], out.ret)
    /\ UNCHANGED solverVars

\* verify_integrity: LIMIT 10
VerifyLimit == 10

\* verify_integrity: the rows the SELECT ... LIMIT 10 hands to the loop, in no
\* stated order, and what the loop makes of them. Fragment defines no __add__,
\* so `Fragment(placed) + Fragment(remaining)` raises TypeError on the first row.
verify_integrity(st) ==
    LET n == IF Cardinality(st) < VerifyLimit THEN Cardinality(st) ELSE VerifyLimit
    IN {IF read = {}
        THEN [exc |-> "none", ok |-> TRUE, buckets |-> 0, rowcount |-> 0]
        ELSE [exc |-> "TypeError", ok |-> FALSE, buckets |-> 0, rowcount |-> 0] :
        read \in {s \in SUBSET st : Cardinality(s) = n}}

\* a test or an operator calls search_tree.verify_integrity()
OpVerify ==
    /\ pc = "idle"
    /\ \E out \in verify_integrity(store) :
          op' = Call("verify", NoRow, out)
    /\ UNCHANGED store
    /\ UNCHANGED solverVars

Next ==
    \/ \E rc \in {root} \cup RootArguments : Solve(rc)
    \/ BudgetExhausted
    \/ Select
    \/ Expand
    \/ PushEntry
    \/ ExpansionDone
    \/ IterationDone
    \/ OpPush
    \/ OpStatus
    \/ OpTrim

Spec ==
    Init /\ [][Next]_vars

----------------------------------------------------------------------------
(* The store alone, driven as tests/test_persistentsearchtree.py and the
   `candidates` command drive it *)

\* the rows the table is kept to
MaxRows == 2

\* the (placed, remaining, parent) triples pushed on the store alone
StoreTriples ==
    {<<(<<"a">>), (<<"b">>), (<<>>)>>,
     <<(<<"a">>), (<<"b">>), (<<"a">>)>>,
     <<(<<"a">>), (<<>>), (<<>>)>>,
     <<(<<"a", " ", "b">>), (<<>>), (<<"a">>)>>,
     <<(<<"A", " ", "b">>), (<<>>), (<<"A">>)>>}

\* the (score, cumulative_score, mean_score) triples pushed on the store alone
StoreScores ==
    {<<EXPLORATION_SCORE, EXPLORATION_SCORE, EXPLORATION_SCORE>>, <<-2, -5, -3>>}

StoreRows ==
    {Row(t[1], t[2], t[3], s[1], s[2], s[3], OK) : t \in StoreTriples, s \in StoreScores}

InitStore ==
    /\ store = {}
    /\ op = Call("none", NoRow, 0)
    /\ letters = <<"a", "b">>
    /\ c1663 = FALSE
    /\ max_iterations = MaxIterations
    /\ max_expansions_per_iteration = MaxExpansions
    /\ current_iteration = 0
    /\ pc = "idle"
    /\ root_candidate = <<>>
    /\ candidate = <<>>
    /\ expansion_count = 0
    /\ updated_candidates = <<>>
    /\ selected = <<>>
    /\ heap = NoHeap
    /\ result = NoResult

\* search_tree.push(*row), on a table kept to MaxRows rows
StorePush ==
    /\ pc = "idle"
    /\ \E row \in StoreRows :
          /\ \/ Cardinality(store) < MaxRows
             \/ \E r \in store : SameKey(r, row)
          /\ store' = push(store, row)
          /\ op' = Call("push", row, 0)
    /\ UNCHANGED solverVars

NextStore ==
    \/ StorePush
    \/ OpStatus
    \/ OpTrim
    \/ OpVerify

SpecStore ==
    InitStore /\ [][NextStore]_vars

----------------------------------------------------------------------------
(* Claims about the store *)

\* a step that is one call of trim / push / status made while no solve runs
TrimStep ==
    pc = "idle" /\ pc' = "idle" /\ op'.name = "trim"

PushStep ==
    pc = "idle" /\ pc' = "idle" /\ op'.name = "push"

StatusStep ==
    pc = "idle" /\ pc' = "idle" /\ op'.name = "status"

\* placed is a strict descendant of p: it begins with p followed by a space,
\* compared case-sensitively
StrictDescendant(placed, p) ==
    StartsWith(placed, p \o <<" ">>)

\* C6 (as stated): trim(p) deletes exactly the rows whose placed begins with p
\* followed by a space, compared case-sensitively; afterwards p has no
\* descendants, the row of p itself is as before, and every other row is unchanged.
C6_TrimDeletesExactlyStrictDescendants ==
    [][TrimStep =>
         LET p == op'.row.placed
         IN /\ store' = {r \in store : ~StrictDescendant(r.placed, p)}
            /\ get_descendents(store', p) = {}
            /\ get(store', p) = get(store, p)]_vars

\* C7 (as stated): a push whose placed is already stored overwrites score,
\* cumulative_score, mean_score and status of that row, keeps its remaining and
\* parent as first inserted, changes no other row and adds no row.
C7_PushOnStoredPlacedAddsNoRow ==
    [][(PushStep /\ get(store, op'.row.placed) # {}) =>
         LET row == op'.row
         IN /\ Cardinality(store') = Cardinality(store)
            /\ \A r \in store : r.placed # row.placed => r \in store'
            /\ \A n \in get(store', row.placed) :
                  /\ n.score = row.score
                  /\ n.cumulative_score = row.cumulative_score
                  /\ n.mean_score = row.mean_score
                  /\ n.status = row.status
                  /\ \E o \in get(store, row.placed) :
                        n.remaining = o.remaining /\ n.parent = o.parent]_vars

\* C7 (amended): a push whose (placed, remaining) pair is already stored
\* overwrites score, cumulative_score, mean_score and status of that row, keeps
\* its parent as first inserted, changes no other row and adds no row; a push
\* whose placed is stored only under another remaining adds a row and changes
\* none.
C7_PushOverwritesOnSameKey ==
    [][PushStep =>
         LET row == op'.row
             old == {r \in store : SameKey(r, row)}
         IN /\ \A r \in store \ old : r \in store'
            /\ Cardinality(store') = Cardinality(store) + (IF old = {} THEN 1 ELSE 0)
            /\ \E n \in store' :
                  /\ SameKey(n, row)
                  /\ n.score = row.score
                  /\ n.cumulative_score = row.cumulative_score
                  /\ n.mean_score = row.mean_score
                  /\ n.status = row.status
                  /\ \A o \in old : n.parent = o.parent
                  /\ old = {} => n.parent = row.parent]_vars

\* C7 witness: a push has overwritten a stored row whose parent differs from the
\* parent pushed, next to a row of the same placed under another remaining
C7_Witness ==
    /\ op.name = "push"
    /\ \E n \in store : SameKey(n, op.row) /\ n.parent # op.row.parent
    /\ \E m \in store : m.placed = op.row.placed /\ m.remaining # op.row.remaining

\* C8 (as stated): the store holds at most one row per placed.
C8_OneRowPerPlaced ==
    \A r, s \in store : r.placed = s.placed => r = s

\* C8 (amended): the store holds at most one row per (placed, remaining) pair,
\* len() is the number of distinct pairs stored, and get(placed) returns rows of
\* that placed only, one whenever a pair with that placed is stored.
C8_OneRowPerKey ==
    /\ \A r, s \in store : SameKey(r, s) => r = s
    /\ StoreLen(store) = Cardinality({<<r.placed, r.remaining>> : r \in store})
    /\ \A p \in {r.placed : r \in store} :
          get(store, p) # {} /\ \A r \in get(store, p) : r.placed = p

\* C8 witness: two rows of one placed are stored, after a push on a stored pair
C8_Witness ==
    /\ \E r, s \in store : r.placed = s.placed /\ r.remaining # s.remaining
    /\ op.name = "push"
    /\ Cardinality(store) = MaxRows

\* C9: pushing an identical row a second time leaves the store as the first push
\* left it.
C9_PushIdempotent ==
    op.name = "push" => push(store, op.row) = store

\* C9 witness: a push has acted on a stored key with other scores than stored
\* before, and another row is stored
C9_Witness ==
    /\ op.name = "push"
    /\ op.row.score # EXPLORATION_SCORE
    /\ \E r \in store : SameKey(r, op.row) /\ r.parent # op.row.parent
    /\ \E r \in store : ~SameKey(r, op.row)

\* C10 (as stated): status(p, s) returns 0 and changes nothing when p is not
\* stored; returns -1 and changes nothing exactly when p is stored with status s
\* already; otherwise returns a positive count and p is stored with status s.
C10_StatusReturnsAndSets ==
    [][StatusStep =>
         LET p == op'.row.placed
             s == op'.row.status
             cur == get(store, p)
         IN IF cur = {} THEN op'.ret = 0 /\ store' = store
            ELSE IF \A r \in cur : r.status = s THEN op'.ret = -1 /\ store' = store
            ELSE /\ op'.ret > 0
                 /\ \A r \in get(store', p) : r.status = s]_vars

----------------------------------------------------------------------------
(* Claims about the solver *)

\* the statuses that close a row
Terminal ==
    {INVALID, FULLY_EXPLORED, MANUALLY_INVALID}

\* C1 (as stated): once a row is INVALID, FULLY_EXPLORED or MANUALLY_INVALID, no
\* solver step sets it back to OK, selection never returns it, and no expansion
\* starts from it.
C1_TerminalRowsStayClosed ==
    [][/\ (pc # "idle" /\ pc' # "loop") =>
             \A r \in store : r.status \in Terminal =>
                \A n \in store' : SameKey(n, r) => n.status # OK
       /\ (pc = "loop" /\ pc' = "expand") =>
             \A r \in get(store', candidate') : r.status \notin Terminal
       /\ (pc = "expand" /\ expansion_count < max_expansions_per_iteration) =>
             \A r \in get(store, candidate) : r.status \notin Terminal]_vars

\* C2 (as stated): every stored row satisfies letters(placed) + letters(remaining)
\* = the letter bank, spaces aside.
C2_RowsConserveBank ==
    \A r \in store :
       \A ch \in Alphabet \ {" "} :
          Counter(r.placed)[ch] + Counter(r.remaining)[ch] = letter_bank[ch]

C4_ScoreFieldInfIffValid ==
    pc = "push" =>
       \A i \in DOMAIN updated_candidates :
          updated_candidates[i].score = PosInf <=> hard_validate(updated_candidates[i].placed)

----------------------------------------------------------------------------
(* Claims about verify *)

\* the multisets letters(placed) + letters(remaining) of the rows of st
RowMultisets(st) ==
    {[ch \in Alphabet \ {" "} |-> Counter(r.placed)[ch] + Counter(r.remaining)[ch]] :
     r \in st}

\* C11 (as stated): verify reads every row and returns ok exactly when all rows
\* have the same multiset letters(placed) + letters(remaining); the histogram has
\* one bucket per distinct multiset and its counts sum to len(); an empty store
\* gives (true, empty histogram).
C11_VerifyBucketsEveryRow ==
    op.name = "verify" =>
       /\ op.ret.exc = "none"
       /\ op.ret.ok <=> Cardinality(RowMultisets(store)) <= 1
       /\ op.ret.buckets = Cardinality(RowMultisets(store))
       /\ op.ret.rowcount = StoreLen(store)

----------------------------------------------------------------------------
(* Claims about solve: termination and the root placeholder *)

\* C12 (as stated): with finite budgets solve makes at most max_iterations
\* selections and returns normally, with the solution sentence or with None.
C12_SolveReturnsNormally ==
    /\ result.kind \in {"none", "sentence", "None"}
    /\ current_iteration <= max_iterations

\* C13 (as stated): when solve starts from a root R (the root_candidate argument
\* or the mode default) that has no row, a row for R is stored before the first
\* selection with remaining = B - letters(R), parent = R minus its last word,
\* the three scores -40 and status OK, so that the first selection from R finds
\* a row; a row for R that exists is left untouched.
C13_RootPlaceholderForR ==
    [][(pc = "idle" /\ pc' = "loop") =>
         LET R == root_candidate'
             ws == parse_sentence(R)
         IN IF get(store, R) = {}
            THEN /\ \E r \in get(store', R) :
                       /\ \A ch \in Alphabet \ {" "} :
                             Counter(r.remaining)[ch] = letter_bank[ch] - Counter(R)[ch]
                       /\ r.parent = JoinSpace(SubSeq(ws, 1, Len(ws) - 1))
                       /\ r.score = EXPLORATION_SCORE
                       /\ r.cumulative_score = EXPLORATION_SCORE
                       /\ r.mean_score = EXPLORATION_SCORE
                       /\ r.status = OK
                 /\ sample(store', R) # {}
            ELSE get(store', R) = get(store, R)]_vars

----------------------------------------------------------------------------
(* The validators and Fragment alone, applied to every short string *)

\* the longest string handed to the validators and to Fragment
MaxLen == 3

\* the characters of the strings handed to the validators
InputChars ==
    {" ", "!", "A", "I", "a", "b", "w", "z"}

\* the strings of at most MaxLen characters
Strings ==
    UNION {[1..n -> InputChars] : n \in 0..MaxLen}

\* expansion: the candidate with the word `next` appended
Extend(cand, next) ==
    IF cand = <<>> THEN next ELSE cand \o <<" ">> \o next

\* The calls below are pure: each run makes one call on a fresh Solver.

\* soft_validate(s) and hard_validate(s) are called on a Solver
Validate ==
    /\ pc = "idle"
    /\ op.name = "none"
    /\ \E s \in Strings :
          op' = Call("validate", [NoRow EXCEPT !.placed = s],
                     [soft |-> soft_validate_outcome(s),
                      hard |-> hard_validate_outcome(s)])
    /\ UNCHANGED store
    /\ UNCHANGED solverVars

\* soft_validate is called on a candidate and on the candidate extended by a
\* word of the vocabulary, as expansion extends it
ValidateExtension ==
    /\ pc = "idle"
    /\ op.name = "none"
    /\ \E s \in Strings, i \in DOMAIN vocabulary :
          op' = Call("extend",
                     [NoRow EXCEPT !.placed = Extend(s, vocabulary[i]), !.parent = s],
                     [soft |-> soft_validate_outcome(Extend(s, vocabulary[i])),
                      prefix |-> soft_validate_outcome(s)])
    /\ UNCHANGED store
    /\ UNCHANGED solverVars

\* Fragment(s) or Fragment(s, word) is constructed
MakeFragment ==
    /\ pc = "idle"
    /\ op.name = "none"
    /\ \E s \in Strings, word \in BOOLEAN :
          op' = Call("Fragment", [NoRow EXCEPT !.placed = s],
                     [word |-> word, fragment |-> Fragment(s, word)])
    /\ UNCHANGED store
    /\ UNCHANGED solverVars

NextPure ==
    \/ Validate
    \/ ValidateExtension
    \/ MakeFragment

SpecPure ==
    Init /\ [][NextPure]_vars

----------------------------------------------------------------------------
(* Claims about the rows the solver writes *)

\* C14 (as stated): every row the solver stores with status OK, the root
\* placeholder and the prefixes written by assessment included, has a placed
\* that passes soft validation.
C14_OkRowsPassSoftValidation ==
    [][(pc # "idle" \/ pc' # "idle") =>
         \A r \in store' \ store : r.status = OK => soft_validate(r.placed)]_vars

----------------------------------------------------------------------------
(* Claims about the validators and Fragment *)

\* C16: a fragment that passes hard validation passes soft validation.
C16_HardImpliesSoft ==
    op.name = "validate" => (op.ret.hard = "True" => op.ret.soft = "True")

\* C16 witness: a fragment has passed hard validation, and soft validation
C16_Witness ==
    /\ op.name = "validate"
    /\ op.ret.hard = "True"
    /\ op.ret.soft = "True"
    /\ op.row.placed # <<>>

\* C17 (as stated): if a fragment extended by a word passes soft validation,
\* the fragment itself passes soft validation.
C17_SoftMonotone ==
    op.name = "extend" => (op.ret.soft = "True" => op.ret.prefix = "True")

\* C18 (as stated): in general mode soft validation passes exactly when no
\* letter is overdrawn from the bank, every tokenized word of the candidate is
\* in the vocabulary, and either no letters remain or some word of the
\* vocabulary is spellable from the remaining letters.
C18_SoftGeneralIff ==
    (op.name = "validate" /\ ~c1663) =>
       LET s == op.row.placed
           ws == parse_sentence(s)
           rem == [ch \in Alphabet |->
                      IF ch = " " THEN 0 ELSE letter_bank[ch] - Counter(s)[ch]]
       IN op.ret.soft = "True" <=>
             /\ \A ch \in Alphabet : rem[ch] >= 0
             /\ \A i \in DOMAIN ws : InVocabulary(ws[i])
             /\ \/ \A ch \in Alphabet : rem[ch] = 0
                \/ \E i \in DOMAIN vocabulary :
                      \A ch \in Alphabet \ {" "} : Counter(vocabulary[i])[ch] <= rem[ch]

\* C19 (as stated): Fragment(S).words is the tokenization of S: no word is
\* empty, no word holds whitespace, and an empty or whitespace-only S gives
\* the empty list.
C19_WordsAreTokenization ==
    op.name = "Fragment" =>
       LET f == op.ret.fragment
       IN /\ f.words = parse_sentence(op.row.placed)
          /\ \A i \in DOMAIN f.words :
                f.words[i] # <<>> /\ \A k \in DOMAIN f.words[i] : f.words[i][k] # " "
          /\ (\A k \in DOMAIN op.row.placed : op.row.placed[k] = " ") => f.words = <<>>

\* C20 (as stated): joining the words of a Fragment with single spaces gives its
\* sentence, the whitespace-normalized form of the input, and its letters are
\* the multiset of the non-space characters of the sentence, with count zero
\* for the space.
C20_FragmentInvariant ==
    op.name = "Fragment" =>
       LET f == op.ret.fragment
           s == f.sentence
       IN /\ JoinSpace(f.words) = s
          /\ s # <<>> => (s[1] # " " /\ s[Len(s)] # " ")
          /\ \A k \in 1..(Len(s) - 1) : ~(s[k] = " " /\ s[k + 1] = " ")
          /\ \A ch \in Alphabet :
                f.letters[ch] =
                   IF ch = " " THEN 0
                   ELSE Cardinality({k \in DOMAIN f.sentence : f.sentence[k] = ch})

----------------------------------------------------------------------------
(* Scorer alignment failure inside solve *)

\* C21 (as stated): a scorer alignment failure on an expansion leaf is confined to
\* that iteration -- the expansion step that meets it does not end the solve with
\* the scorer's IndexError.
C21_AlignmentFailureConfined ==
    [][(pc = "expand" /\ expansion_count < max_expansions_per_iteration) =>
          ~(pc' = "idle" /\ result' = Raised("IndexError"))]_vars

----------------------------------------------------------------------------
(* Solver.retrieve_candidate over a store *)

\* the status retrieve_candidate gives a word that has no entry in explored_vocab
UNEXPLORED == 6

\* key=lambda x: x[5] if x[5] is not None else EXPLORATION_SCORE (no stored score
\* is NULL here)
SortKey(entry) ==
    entry.mean_score

\* explored_vocab = {entry[0]: entry for entry in get_children(candidate)}: one row
\* for each placed, the last one the SELECT returned
ExploredVocabs(st, cand) ==
    LET fetched == get_children(st, cand)
    IN {E \in SUBSET fetched :
          \A r \in fetched : Cardinality({e \in E : e.placed = r.placed}) = 1}

\* new_candidate = f"{candidate} {word}"
NewCandidate(cand, word) ==
    cand \o <<" ">> \o word

\* status_code = child[6], child being explored_vocab's entry or the default tuple
StatusCodeOf(explored_vocab, cand, word) ==
    LET found == {e \in explored_vocab : e.placed = NewCandidate(cand, word)}
    IN IF found = {} THEN UNEXPLORED ELSE (CHOOSE e \in found : TRUE).status

\* the stats dictionary: for each status code met, its count and its percentage,
\* count / total, kept as the pair <<count, total>>; the key str(status_code)[0] is
\* the code's only digit
Stats(explored_vocab, cand, valid_vocab) ==
    LET code(i) == StatusCodeOf(explored_vocab, cand, valid_vocab[i])
        total == Len(valid_vocab)
    IN [status_code \in {code(i) : i \in DOMAIN valid_vocab} |->
          LET count == Cardinality({i \in DOMAIN valid_vocab : code(i) = status_code})
          IN [status_code |-> status_code, count |-> count,
              percentage |-> <<count, total>>]]

\* top_children: the children with status 0, in vocabulary order, through
\* sorted(..., reverse=True)[:limit] -- the sort is stable
TopChildren(explored_vocab, cand, valid_vocab, limit) ==
    LET isChild(i) == StatusCodeOf(explored_vocab, cand, valid_vocab[i]) = OK
        child(i) == CHOOSE e \in explored_vocab :
                       e.placed = NewCandidate(cand, valid_vocab[i])
        before(j, i) == \/ SortKey(child(j)) > SortKey(child(i))
                        \/ SortKey(child(j)) = SortKey(child(i)) /\ j < i
        rank(i) == 1 + Cardinality({j \in DOMAIN valid_vocab : isChild(j) /\ before(j, i)})
    IN {child(i) : i \in {k \in DOMAIN valid_vocab : isChild(k) /\ rank(k) <= limit}}

\* top_descendents: get_descendents(candidate) through sorted(..., reverse=True)[:limit]
\* and into a dictionary keyed by placed; the SELECT has no ORDER BY, so equal keys
\* come in any order, and of two entries with one placed the later one stays
TopDescendents(st, cand, limit) ==
    LET descendents == get_descendents(st, cand)
        n == IF Cardinality(descendents) < limit THEN Cardinality(descendents) ELSE limit
        cuts == {T \in SUBSET descendents :
                   /\ Cardinality(T) = n
                   /\ \A t \in T, o \in descendents \ T : SortKey(o) <= SortKey(t)}
    IN UNION {{D \in SUBSET T :
                 \A t \in T : \E d \in D :
                    /\ d.placed = t.placed
                    /\ SortKey(d) <= SortKey(t)
                    /\ \A e \in D : e.placed = d.placed => e = d} : T \in cuts}

\* retrieve_candidate(candidate, limit): the triples (stats, top_children,
\* top_descendents) the call may return
retrieve_candidate(st, cand, limit) ==
    IF get(st, cand) = {}
    THEN {[stats |-> <<>>, top_children |-> {}, top_descendents |-> {}]}
    ELSE UNION {UNION {
            LET valid_vocab == compute_valid_vocab(Frag(cached.remaining).letters)
            IN {[stats |-> Stats(explored_vocab, cand, valid_vocab),
                 top_children |-> TopChildren(explored_vocab, cand, valid_vocab, limit),
                 top_descendents |-> top] :
                top \in TopDescendents(st, cand, limit)} :
            explored_vocab \in ExploredVocabs(st, cand)} :
         cached \in get(st, cand)}

\* the rows retrieve_candidate is run over
MaxStored == 3

\* the (placed, remaining, parent) triples of those rows, over the letters "ab": the
\* root, its children, a grandchild, and a sentence that differs in case only
RetrieveTriples ==
    {<<(<<>>), (<<"a", "b">>), (<<>>)>>,
     <<(<<"a">>), (<<"b">>), (<<>>)>>,
     <<(<<"a", "b">>), (<<>>), (<<>>)>>,
     <<(<<"a", " ", "b">>), (<<>>), (<<"a">>)>>,
     <<(<<"A", " ", "b">>), (<<>>), (<<"A">>)>>}

RetrieveRows ==
    {Row(t[1], t[2], t[3], s, s, s, code) :
     t \in RetrieveTriples, s \in {EXPLORATION_SCORE, -3}, code \in {OK, INVALID}}

\* search_tree.push(*row), as tests/test_solver.py test_retrieve_candidate fills the tree
RetrievePush ==
    /\ pc = "idle"
    /\ \E row \in RetrieveRows :
          /\ \/ Cardinality(store) < MaxStored
             \/ \E r \in store : SameKey(r, row)
          /\ store' = push(store, row)
          /\ op' = Call("push", row, 0)
    /\ UNCHANGED solverVars

\* cli candidates: solver.retrieve_candidate(c, limit=number)
OpRetrieve ==
    /\ pc = "idle"
    /\ \E cand \in {r.placed : r \in store} \cup {<<>>, <<"a">>}, limit \in 1..MaxStored :
          \E out \in retrieve_candidate(store, cand, limit) :
             op' = Call("retrieve_candidate", [NoRow EXCEPT !.placed = cand],
                        [limit |-> limit, stats |-> out.stats,
                         top_children |-> out.top_children,
                         top_descendents |-> out.top_descendents])
    /\ UNCHANGED store
    /\ UNCHANGED solverVars

NextRetrieve ==
    \/ RetrievePush
    \/ OpRetrieve

SpecRetrieve ==
    InitStore /\ [][NextRetrieve]_vars

\* the status the store holds for the child of node by word: the status of the row
\* whose placed is node extended by word, UNEXPLORED without such a row
StoredChildStatus(st, node, word) ==
    LET rows == get(st, Extend(node, word))
    IN IF rows = {} THEN {UNEXPLORED} ELSE {r.status : r \in rows}

\* C22 (as stated): the histogram of retrieve_candidate(node) counts each legal next
\* word of a stored node once, under the status of its stored child row or
\* UNEXPLORED, the empty root included; the counts sum to the number of legal next
\* words and the percentages to 1; for a node not stored the three results are empty.
C22_HistogramCountsStoredChildren ==
    op.name = "retrieve_candidate" =>
       LET node == op.row.placed
           stats == op.ret.stats
       IN IF get(store, node) = {}
          THEN stats = <<>> /\ op.ret.top_children = {} /\ op.ret.top_descendents = {}
          ELSE \E cached \in get(store, node) :
                  LET words == compute_valid_vocab(Frag(cached.remaining).letters)
                      counted(code) == IF code \in DOMAIN stats THEN stats[code].count
                                       ELSE 0
                      Sum[k \in 0..8] == IF k = 0 THEN 0
                                         ELSE Sum[k - 1] + counted(k - 1)
                  IN /\ \E status_of \in [DOMAIN words -> 0..7] :
                           /\ \A i \in DOMAIN words :
                                 status_of[i] \in StoredChildStatus(store, node, words[i])
                           /\ \A code \in 0..7 :
                                 counted(code) =
                                    Cardinality({i \in DOMAIN words : status_of[i] = code})
                     /\ Sum[8] = Len(words)
                     /\ \A code \in DOMAIN stats :
                           stats[code].percentage = <<stats[code].count, Sum[8]>>

\* C23 (as stated): the top descendants of retrieve_candidate(node, limit) for a
\* stored node are at most limit rows, each a strict descendant of node with status OK, and no OK descendant
\* left out has a higher mean_score than one returned.
C23_TopDescendentsAreBestOk ==
    (op.name = "retrieve_candidate" /\ get(store, op.row.placed) # {}) =>
       LET node == op.row.placed
           top == op.ret.top_descendents
       IN /\ Cardinality(top) <= op.ret.limit
          /\ \A r \in top : r \in store /\ StrictDescendant(r.placed, node) /\ r.status = OK
          /\ \A o \in store :
                (StrictDescendant(o.placed, node) /\ o.status = OK /\ o \notin top) =>
                   /\ Cardinality(top) = op.ret.limit
                   /\ \A r \in top : o.mean_score <= r.mean_score

----------------------------------------------------------------------------
(* utilities.Heap: a min-heap capped at max_size *)

\* heapq keeps the smallest item at h[0]; the list is kept sorted here, which is one
\* of the arrangements heapq allows, and the methods read nothing but h[0] and len(h)

\* heapq.heappush(h, item)
RECURSIVE heappush(_, _)
heappush(h, item) ==
    IF h = <<>> THEN <<item>>
    ELSE IF item <= Head(h) THEN <<item>> \o h
    ELSE <<Head(h)>> \o heappush(Tail(h), item)

\* heapq.heapify(iterable)
RECURSIVE heapify(_)
heapify(iterable) ==
    IF iterable = <<>> THEN <<>>
    ELSE heappush(heapify(Tail(iterable)), Head(iterable))

\* what a method hands back: an exception, None, or an item
HeapRaised(exc, h) ==
    [exc |-> exc, none |-> FALSE, item |-> 0, h |-> h]

HeapNone(h) ==
    [exc |-> "none", none |-> TRUE, item |-> 0, h |-> h]

HeapItem(item, h) ==
    [exc |-> "none", none |-> FALSE, item |-> item, h |-> h]

\* heapq.heappop(h)
heappop(h) ==
    IF h = <<>> THEN HeapRaised("IndexError", h) ELSE HeapItem(Head(h), Tail(h))

\* heapq.heapreplace(h, item)
heapreplace(h, item) ==
    IF h = <<>> THEN HeapRaised("IndexError", h)
    ELSE HeapItem(Head(h), heappush(Tail(h), item))

\* heapq.heappushpop(h, item)
heappushpop(h, item) ==
    IF h # <<>> /\ Head(h) < item THEN HeapItem(Head(h), heappush(Tail(h), item))
    ELSE HeapItem(item, h)

\* Heap.__init__(iterable, max_size)
HeapNew(iterable, max_size) ==
    [h |-> heapify(iterable), max_size |-> max_size, given |-> heapify(iterable),
     pushed_only |-> TRUE]

\* Heap.push(item)
Heap_push(hp, item) ==
    IF Len(hp.h) < hp.max_size THEN HeapNone(heappush(hp.h, item))
    ELSE IF hp.h = <<>> THEN HeapRaised("IndexError", hp.h)
    ELSE IF item > hp.h[1] THEN heapreplace(hp.h, item)
    ELSE HeapItem(item, hp.h)

\* Heap.pop()
Heap_pop(hp) ==
    heappop(hp.h)

\* Heap.pushpop(item)
Heap_pushpop(hp, item) ==
    IF Len(hp.h) < hp.max_size THEN heappushpop(hp.h, item)
    ELSE IF hp.h = <<>> THEN HeapRaised("IndexError", hp.h)
    ELSE IF item > hp.h[1] THEN heapreplace(hp.h, item)
    ELSE HeapItem(item, hp.h)

\* Heap.replace(item)
Heap_replace(hp, item) ==
    heapreplace(hp.h, item)

\* the items, the largest max_size, and the most items of which the model keeps track
MaxItem == 3

MaxSize == 2

MaxGiven == 4

\* the lists a Heap is constructed from
Iterables ==
    UNION {[1..n -> 1..MaxItem] : n \in 0..(MaxSize + 1)}

\* the state after Heap(iterable, max_size)
InitHeap ==
    /\ store = {}
    /\ op = Call("none", NoRow, 0)
    /\ letters = <<"a", "b">>
    /\ c1663 = FALSE
    /\ max_iterations = MaxIterations
    /\ max_expansions_per_iteration = MaxExpansions
    /\ current_iteration = 0
    /\ pc = "idle"
    /\ root_candidate = <<>>
    /\ candidate = <<>>
    /\ expansion_count = 0
    /\ updated_candidates = <<>>
    /\ selected = <<>>
    /\ heap \in {HeapNew(iterable, max_size) :
                 iterable \in Iterables, max_size \in 0..MaxSize}
    /\ result = NoResult

heapFrame ==
    <<store, letters, c1663, max_iterations, max_expansions_per_iteration,
      current_iteration, pc, root_candidate, candidate, expansion_count,
      updated_candidates, selected, result>>

\* a call of a Heap method: its name, its argument, the list before it, what it returned
HeapCall(name, item, out) ==
    Call(name, [item |-> item, h |-> heap.h],
         [exc |-> out.exc, none |-> out.none, item |-> out.item])

\* heap.push(item)
HeapPush ==
    /\ Len(heap.given) < MaxGiven
    /\ \E item \in 1..MaxItem :
          LET out == Heap_push(heap, item)
          IN /\ heap' = [heap EXCEPT !.h = out.h,
                                     !.given = IF out.exc = "none"
                                               THEN heappush(heap.given, item)
                                               ELSE heap.given]
             /\ op' = HeapCall("Heap.push", item, out)
    /\ UNCHANGED heapFrame

\* heap.pop()
HeapPop ==
    /\ LET out == Heap_pop(heap)
       IN /\ heap' = [heap EXCEPT !.h = out.h, !.given = <<>>, !.pushed_only = FALSE]
          /\ op' = HeapCall("Heap.pop", 0, out)
    /\ UNCHANGED heapFrame

\* heap.pushpop(item)
HeapPushpop ==
    /\ \E item \in 1..MaxItem :
          LET out == Heap_pushpop(heap, item)
          IN /\ heap' = [heap EXCEPT !.h = out.h, !.given = <<>>, !.pushed_only = FALSE]
             /\ op' = HeapCall("Heap.pushpop", item, out)
    /\ UNCHANGED heapFrame

\* heap.replace(item)
HeapReplace ==
    /\ \E item \in 1..MaxItem :
          LET out == Heap_replace(heap, item)
          IN /\ heap' = [heap EXCEPT !.h = out.h, !.given = <<>>, !.pushed_only = FALSE]
             /\ op' = HeapCall("Heap.replace", item, out)
    /\ UNCHANGED heapFrame

NextHeap ==
    \/ HeapPush
    \/ HeapPop
    \/ HeapPushpop
    \/ HeapReplace

SpecHeap ==
    InitHeap /\ [][NextHeap]_vars

\* the n largest items of a sorted list
Largest(sorted, n) ==
    IF Len(sorted) <= n THEN sorted
    ELSE SubSeq(sorted, Len(sorted) - n + 1, Len(sorted))

\* C24 (as stated): a Heap with max_size = m never holds more than m items, from
\* construction on and after every push, pushpop, replace and pop; after pushes alone
\* it holds the m largest of all the items it was given; a push that would exceed m
\* returns the smallest item, which is dropped, and any other push returns None.
C24_HeapCappedAtMaxSize ==
    /\ Len(heap.h) <= heap.max_size
    /\ heap.pushed_only => heap.h = Largest(heap.given, heap.max_size)
    /\ op.name = "Heap.push" =>
          LET all == heappush(op.row.h, op.row.item)
          IN IF Len(all) > heap.max_size
             THEN /\ op.ret.exc = "none" /\ ~op.ret.none
                  /\ op.ret.item = Head(all)
                  /\ heap.h = Tail(all)
             ELSE /\ op.ret.exc = "none" /\ op.ret.none
                  /\ heap.h = all

----------------------------------------------------------------------------
(* The walks of one iteration *)

\* C25 (as stated): within one outer iteration every expansion walk starts from the
\* node that iteration's selection returned, not from the leaf of the previous walk.
C25_WalksStartFromSelection ==
    (pc = "expand" /\ expansion_count < max_expansions_per_iteration) =>
       candidate = selected

----------------------------------------------------------------------------
(* anagramist.faux_uct_search and its selection walk *)

\* selection, one turn of its loop at a stored node: the sentences put in `words` --
\* for each word of compute_valid_vocab(vocabulary, letter_bank) the entry of
\* explored_vocab or the default tuple (status 0), kept when its status is 0
SelectionWords(explored_vocab, node) ==
    LET valid_vocab == compute_valid_vocab(letter_bank)
    IN {NewCandidate(node, valid_vocab[i]) : i \in
          {k \in DOMAIN valid_vocab :
              \A e \in explored_vocab :
                 e.placed = NewCandidate(node, valid_vocab[k]) => e.status = OK}}

\* selection: the weights handed to choices, w[3] + weight_offset for each of `words`
\* (w[3] is the score column, or EXPLORATION_SCORE in the tuple of an unexplored word)
SelectionWeights(explored_vocab, node) ==
    LET valid_vocab == compute_valid_vocab(letter_bank)
        found(k) == {e \in explored_vocab : e.placed = NewCandidate(node, valid_vocab[k])}
        w(k) == IF found(k) = {}
                THEN Row(NewCandidate(node, valid_vocab[k]), <<>>, <<>>,
                         EXPLORATION_SCORE, 0, 0, OK)
                ELSE CHOOSE e \in found(k) : TRUE
        words == {w(k) : k \in {j \in DOMAIN valid_vocab : w(j).status = OK}}
        least == CHOOSE x \in {e.score : e \in words} :
                    \A e \in words : x <= e.score
        weight_offset == (IF least < 0 THEN -least ELSE least) + 1
    IN {[placed |-> e.placed, weight |-> e.score + weight_offset] : e \in words}

\* simulation(node, ...): the Fragments the uniform random walk may return
RECURSIVE simulation(_)
simulation(node) ==
    LET placed == Frag(node)
        remaining == Subtract(letter_bank, placed.letters)
        valid == soft_validate_outcome(placed.sentence)
        next_words == compute_valid_vocab(remaining)
    IN IF valid \notin {"True", "False"} THEN {[exc |-> valid, value |-> node]}
       ELSE IF valid = "False" \/ Len(next_words) = 0
       THEN {[exc |-> "none", value |-> node]}
       ELSE UNION {simulation(NewCandidate(node, next_words[i])) :
                   i \in DOMAIN next_words}

\* the sentences of the rows faux_uct_search finds in the tree: the root and the
\* root extended by a word of the letter bank
UctPlaced ==
    {root} \cup {Extend(root, w) : w \in {vocabulary[i] : i \in
                    {k \in DOMAIN vocabulary :
                        CounterLe(Frag(vocabulary[k]).letters, letter_bank)}}}

\* their (score, cumulative_score, mean_score): the placeholder's, and a score sum
\* of -3 as Solver.assessment stores it
UctScores ==
    {<<EXPLORATION_SCORE, EXPLORATION_SCORE, EXPLORATION_SCORE>>, <<0, 0, -3>>}

UctRows ==
    {Row(p, Elements(Subtract(letter_bank, Frag(p).letters), letters),
         IF p = root THEN <<>> ELSE root,
         s[1], s[2], s[3], code) :
     p \in UctPlaced, code \in {OK, INVALID}, s \in UctScores}

\* the tree is filled between searches: search_tree.push(*row)
UctPush ==
    /\ pc = "idle"
    /\ \E row \in UctRows :
          /\ store' = push(store, row)
          /\ op' = Call("push", row, 0)
    /\ UNCHANGED solverVars

\* faux_uct_search, up to the call of selection: node = root
UctSearch ==
    /\ pc = "idle"
    /\ pc' = "selection"
    /\ candidate' = root
    /\ result' = NoResult
    /\ UNCHANGED <<store, op, heap, letters, c1663, max_iterations,
                   max_expansions_per_iteration, current_iteration, root_candidate,
                   expansion_count, updated_candidates, selected>>

\* selection: a turn of the loop that chooses a child -- every weight
\* w[3] + weight_offset is positive, so choices may return each of `words`
SelectionStep ==
    /\ pc = "selection"
    /\ get(store, candidate) # {}
    /\ \E explored_vocab \in ExploredVocabs(store, candidate) :
          \E w \in SelectionWeights(explored_vocab, candidate) :
             w.weight > 0 /\ candidate' = w.placed
    /\ UNCHANGED <<store, op, heap, letters, c1663, max_iterations,
                   max_expansions_per_iteration, current_iteration, pc, root_candidate,
                   expansion_count, updated_candidates, selected, result>>

\* selection returns (node, False) at a node that is not stored
SelectionUnexplored ==
    /\ pc = "selection"
    /\ get(store, candidate) = {}
    /\ pc' = "simulation"
    /\ UNCHANGED <<store, op, heap, letters, c1663, max_iterations,
                   max_expansions_per_iteration, current_iteration, root_candidate,
                   candidate, expansion_count, updated_candidates, selected, result>>

\* selection returns (placed_letters, True) at a dead end; faux_uct_search then calls
\* search_tree.trim(node, status=5), and trim(self, placed) takes no `status`
SelectionDeadEnd ==
    /\ pc = "selection"
    /\ get(store, candidate) # {}
    /\ \E explored_vocab \in ExploredVocabs(store, candidate) :
          SelectionWords(explored_vocab, candidate) = {}
    /\ Finish(Raised("TypeError"))
    /\ UNCHANGED <<store, op, heap, letters, c1663, max_iterations,
                   max_expansions_per_iteration, current_iteration>>

\* faux_uct_search: placed = simulation(node, ...), then score_fragment(placed, oracle),
\* which calls oracle.calc_candidate_scores -- TransformerOracle has no such method
UctSimulate ==
    /\ pc = "simulation"
    /\ \E placed \in simulation(candidate) :
          IF placed.exc # "none" THEN Finish(Raised(placed.exc))
          ELSE Finish(Raised("AttributeError"))
    /\ UNCHANGED <<store, op, heap, letters, c1663, max_iterations,
                   max_expansions_per_iteration, current_iteration>>

NextUct ==
    \/ UctPush
    \/ UctSearch
    \/ SelectionStep
    \/ SelectionUnexplored
    \/ SelectionDeadEnd
    \/ UctSimulate

\* a search over a letter bank that holds the letters of its root
InitUct ==
    /\ Init
    /\ CounterLe(Frag(root).letters, letter_bank)

SpecUct ==
    InitUct /\ [][NextUct]_vars

\* the legal next words of a stored node: those spellable from its remaining letters
LegalNextWords(cached) ==
    LET words == compute_valid_vocab(Frag(cached.remaining).letters)
    IN {words[i] : i \in DOMAIN words}

\* every legal next word of the stored node is stored, with a status other than OK
Exhausted(st, node) ==
    /\ get(st, node) # {}
    /\ \A cached \in get(st, node) : \A w \in LegalNextWords(cached) :
          /\ get(st, Extend(node, w)) # {}
          /\ \A r \in get(st, Extend(node, w)) : r.status # OK

\* C26 (as stated): when every legal next word of a stored node N is stored with a
\* non-OK status, the selection that reaches N reports a dead end, the strict
\* descendants of N are deleted and N becomes FULLY_EXPLORED.
C26_ExhaustedNodeIsPruned ==
    [][(pc = "selection" /\ Exhausted(store, candidate)) =>
          /\ pc' = "idle"
          /\ \A r \in store' : ~StrictDescendant(r.placed, candidate)
          /\ \A r \in get(store', candidate) : r.status = FULLY_EXPLORED]_vars

\* C28 (as stated): at each step of the selection walk the candidate children are
\* exactly the words spellable from the node's remaining letters; a node selection
\* returns as unexplored is not stored and uses no more letters than the bank.
C28_SelectionChildrenAreSpellable ==
    /\ (pc = "selection" /\ get(store, candidate) # {}) =>
          \A cached \in get(store, candidate) :
             SelectionWords({}, candidate) =
                {NewCandidate(candidate, w) : w \in LegalNextWords(cached)}
    /\ pc = "simulation" =>
          /\ get(store, candidate) = {}
          /\ CounterLe(Frag(candidate).letters, letter_bank)

----------------------------------------------------------------------------
(* expansion and backpropogation alone, called on short inputs *)

\* solver.expansion(candidate) is called on a fresh Solver
CallExpansion ==
    /\ pc = "idle"
    /\ op.name = "none"
    /\ \E cand \in Strings :
          \E leaf \in expansion(cand) :
             op' = Call("expansion", [NoRow EXCEPT !.placed = cand], leaf)
    /\ UNCHANGED store
    /\ UNCHANGED solverVars

\* the words of the vocabulary spellable from what candidate c leaves of the bank
Spellable(c) ==
    {vocabulary[i] : i \in
        {k \in DOMAIN vocabulary :
            CounterLe(Frag(vocabulary[k]).letters,
                      Subtract(letter_bank, Frag(c).letters))}}

\* L ends a walk from c: each fragment before L passes soft validation and is
\* extended by a spellable word after a single space; L fails soft validation or has
\* no spellable next word
RECURSIVE WalkReaches(_, _)
WalkReaches(c, L) ==
    \/ c = L /\ (~soft_validate(c) \/ Spellable(c) = {})
    \/ /\ Len(c) < Len(L)
       /\ soft_validate(c)
       /\ \E w \in Spellable(c) : WalkReaches(Extend(c, w), L)

hard_validate_unbound(sentence) ==
    IF ~CounterEq(Frag(sentence).letters, letter_bank) THEN "False" ELSE "TypeError"

\* statistics.geometric_mean of the scores moved up by offset, moved back: kept to
\* its integer part
GeometricMean(scored_words, i) ==
    LET Min[k \in 1..i] == IF k = 1 THEN scored_words[1].score
                           ELSE IF scored_words[k].score < Min[k - 1]
                           THEN scored_words[k].score ELSE Min[k - 1]
        offset == (IF Min[i] < 0 THEN -Min[i] ELSE Min[i]) + 1
        Prod[k \in 0..i] == IF k = 0 THEN 1
                            ELSE Prod[k - 1] * (scored_words[k].score + offset)
        Pow[g \in 0..(2 * offset), k \in 0..i] == IF k = 0 THEN 1 ELSE Pow[g, k - 1] * g
        top == 2 * offset
    IN (CHOOSE g \in 0..top : Pow[g, i] <= Prod[i] /\ (g = top \/ Pow[g + 1, i] > Prod[i]))
       - offset

\* backpropogation(node, letter_bank, scored_words, c1663): the entries from the i-th
\* scored word on, `sentence` being the words before it
RECURSIVE BackpropogationFrom(_, _, _, _)
BackpropogationFrom(node, scored_words, i, sentence) ==
    IF i > Len(scored_words) THEN [exc |-> "none", entries |-> <<>>]
    ELSE LET w == scored_words[i].word
             parent == sentence
             next == IF sentence = <<>> THEN w ELSE sentence \o <<" ">> \o w
             remaining == Subtract(letter_bank, Counter(next))
             valid == hard_validate_unbound(next)
             dud == w = scored_words[Len(scored_words)].word
             score == IF dud THEN NegInf ELSE scored_words[i].score
             cumulative_score == SumScores(scored_words, i)
             entry == Row(next, Elements(remaining, letters), parent, score,
                          cumulative_score,
                          IF dud THEN NegInf ELSE GeometricMean(scored_words, i),
                          IF dud THEN INVALID ELSE OK)
         IN IF StartsWith(node, next)
            THEN BackpropogationFrom(node, scored_words, i + 1, next)
            ELSE IF valid # "False" THEN [exc |-> valid, entries |-> <<>>]
            ELSE IF dud THEN [exc |-> "none", entries |-> <<entry>>]
            ELSE LET rest == BackpropogationFrom(node, scored_words, i + 1, next)
                 IN [exc |-> rest.exc, entries |-> <<entry>> \o rest.entries]

backpropogation(node, scored_words) ==
    BackpropogationFrom(node, scored_words, 1, <<>>)

\* the scored words of the sentences of at most MaxLen words of the vocabulary
\* that the letter bank spells
ScoredWords ==
    LET words == {vocabulary[i] : i \in
                     {k \in DOMAIN vocabulary :
                         CounterLe(Frag(vocabulary[k]).letters, letter_bank)}}
    IN UNION {[1..n -> [word : words, score : TokenScores]] : n \in 1..MaxLen}

\* backpropogation is called with the scored words of a leaf reached from `node`
CallBackpropogation ==
    /\ pc = "idle"
    /\ op.name = "none"
    /\ \E scored_words \in ScoredWords :
          \E node \in {<<>>, scored_words[1].word} :
             LET out == backpropogation(node, scored_words)
             IN op' = Call("backpropogation", [NoRow EXCEPT !.placed = node],
                           [scored_words |-> scored_words, exc |-> out.exc,
                            entries |-> out.entries])
    /\ UNCHANGED store
    /\ UNCHANGED solverVars

NextCalls ==
    \/ CallExpansion
    \/ CallBackpropogation

SpecCalls ==
    Init /\ [][NextCalls]_vars

\* C27 (as stated): among the entries for one leaf only the entry of the full leaf can
\* carry -inf and status INVALID; every proper prefix of the leaf beyond the node is
\* recorded with status OK and a finite score, also when the last word of the leaf
\* occurs earlier in the sentence.
C27_OnlyTheLeafIsInvalid ==
    (op.name = "backpropogation" /\ op.ret.exc = "none") =>
       LET sw == op.ret.scored_words
           entries == op.ret.entries
           prefix(i) == JoinSpace([j \in 1..i |-> sw[j].word])
       IN /\ \A k \in DOMAIN entries :
                (entries[k].status = INVALID \/ entries[k].score = NegInf) =>
                   entries[k].placed = prefix(Len(sw))
          /\ \A i \in 1..(Len(sw) - 1) :
                ~StartsWith(op.row.placed, prefix(i)) =>
                   \E k \in DOMAIN entries :
                      /\ entries[k].placed = prefix(i)
                      /\ entries[k].status = OK
                      /\ entries[k].score \notin {NegInf, PosInf}

\* C30 (as stated): for every row assessment hands to push, score is the aligned
\* log-score of the row's last word and cumulative_score is the sum of the scores of
\* the rows on the path from the first word to this row.
C30_ScoreAndCumulativeScore ==
    (pc = "push" /\ updated_candidates # <<>>) =>
       \E s \in TokenScores :
          LET scored == score_candidates(Frag(candidate), s).scored_words
              n == Len(scored)
              k == Len(updated_candidates)
              entry == updated_candidates[k]
          IN /\ entry.score = scored[n].score
             /\ entry.cumulative_score = SumScores(scored, n)


----------------------------------------------------------------------------
(* Leaves as the solver builds them: words of the vocabulary joined by spaces *)

\* the most words of a leaf
MaxWords == 6

\* Solver(letters) for the leaves: the banks of the runs and one with all of :,!!
LeafBanks ==
    Banks \cup {<<"I", ":", ",", "w", "!", "!">>}

InitLeaf ==
    /\ store = {}
    /\ op = Call("none", NoRow, 0)
    /\ letters \in LeafBanks
    /\ c1663 \in BOOLEAN
    /\ max_iterations = MaxIterations
    /\ max_expansions_per_iteration = MaxExpansions
    /\ current_iteration = 0
    /\ pc = "idle"
    /\ root_candidate = <<>>
    /\ candidate = <<>>
    /\ expansion_count = 0
    /\ updated_candidates = <<>>
    /\ selected = <<>>
    /\ heap = NoHeap
    /\ result = NoResult

\* the candidates of at most n more words that placing words spelled from the
\* letters left builds on candidate c
RECURSIVE Built(_, _)
Built(c, n) ==
    LET left == Subtract(letter_bank, [Counter(c) EXCEPT ![" "] = 0])
        next == compute_valid_vocab(left)
    IN IF n = 0 THEN {c}
       ELSE {c} \cup UNION {Built(Extend(c, next[i]), n - 1) : i \in DOMAIN next}

Leaves ==
    UNION {Built(vocabulary[i], MaxWords - 1) : i \in DOMAIN vocabulary} \ {<<>>}

\* both validators and assessment are applied to a leaf
AssessLeaf ==
    /\ pc = "idle"
    /\ op.name = "none"
    /\ \E leaf \in Leaves, s \in TokenScores :
          op' = Call("leaf", [NoRow EXCEPT !.placed = leaf],
                     [soft |-> soft_validate_outcome(leaf),
                      hard |-> hard_validate_outcome(leaf),
                      assessed |-> assessment(leaf, s)])
    /\ UNCHANGED store
    /\ UNCHANGED solverVars

\* the last n words of a list
LastWords(words, n) ==
    IF Len(words) <= n THEN words ELSE SubSeq(words, Len(words) - n + 1, Len(words))

\* a leaf that meets every condition of comic 1663, word by word
IsSolution(leaf) ==
    LET words == parse_sentence(leaf)
    IN /\ CounterEq([Counter(leaf) EXCEPT ![" "] = 0], letter_bank)
       /\ \A i \in DOMAIN words : InVocabulary(words[i])
       /\ words[1] = <<"I">>
       /\ PunctuationFrom(words, 1, 0) = "ok"
       /\ WordLengthsOk(words)
       /\ LastWords(words, 3) = << <<"w">>, <<"!">>, <<"!">> >>

\* C31: in c1663 mode a leaf built of vocabulary words that uses exactly the
\* bank, starts with "I", keeps the punctuation order and the word length rule
\* and ends in w, !, ! passes hard validation, and assessment records it with
\* the score +infinity.
C31_SolutionLeafIsRecorded ==
    (c1663 /\ op.name = "leaf" /\ IsSolution(op.row.placed))
        => /\ op.ret.hard = "True"
           /\ op.ret.assessed.exc = "none"
           /\ \E i \in DOMAIN op.ret.assessed.entries :
                 LET entry == op.ret.assessed.entries[i]
                 IN entry.score = PosInf \/ entry.mean_score = PosInf


\* the most one-character words of a candidate handed to the validators
MaxPunctuation == 5

\* candidates of one-character words: an optional "I", then at most
\* MaxPunctuation words out of : , ! ' -
PunctuatedCandidates ==
    LET marks == << <<":">>, <<",">>, <<"!">>, <<"'">>, <<"-">> >>
        lists == UNION {[1..n -> DOMAIN marks] : n \in 1..MaxPunctuation}
    IN UNION {{JoinSpace([i \in DOMAIN f |-> marks[f[i]]]),
               JoinSpace(<< <<"I">> >> \o [i \in DOMAIN f |-> marks[f[i]]])} : f \in lists}

\* both validators, and the punctuation loop they share, on such a candidate
ValidatePunctuated ==
    /\ pc = "idle"
    /\ op.name = "none"
    /\ c1663
    /\ \E s \in PunctuatedCandidates :
          op' = Call("punctuated", [NoRow EXCEPT !.placed = s],
                     [soft |-> soft_validate_outcome(s),
                      hard |-> hard_validate_outcome(s),
                      punctuation |-> PunctuationFrom(Frag(s).words, 1, 0)])
    /\ UNCHANGED store
    /\ UNCHANGED solverVars

\* Candidate.parse(candidate_sentence): the word list, empty strings included
RECURSIVE CandidateParseFrom(_, _, _)
CandidateParseFrom(s, i, words) ==
    IF i > Len(s) THEN words
    ELSE LET ch == s[i]
             n == Len(words)
         IN IF ch \in {"A", "I", "a", "b", "w", "z", "'", "-"}
            THEN CandidateParseFrom(s, i + 1,
                                    [words EXCEPT ![n] = Append(words[n], ch)])
            ELSE IF ch = " "
            THEN CandidateParseFrom(s, i + 1,
                                    IF words[n] # <<>> THEN Append(words, <<>>)
                                    ELSE words)
            ELSE CandidateParseFrom(s, i + 1, Append(Append(words, <<ch>>), <<>>))

\* the word length rule of Candidate.validate on the list words_len:
\* "accept", "reject", or the exception the statements raise
CandidateWordLengths(words_len) ==
    LET n == Len(words_len)
        least == CHOOSE i \in 1..n : \A j \in 1..n : words_len[i] <= words_len[j]
        others == (1..n) \ {least}
        next_least == CHOOSE i \in others : \A j \in others : words_len[i] <= words_len[j]
        longest == words_len[least]
        second_longest == words_len[next_least]
        position_longest == CHOOSE i \in 1..n :
                               /\ words_len[i] = 11
                               /\ \A j \in 1..(i - 1) : words_len[j] # 11
        before == IF position_longest = 1 THEN words_len[n]
                  ELSE words_len[position_longest - 1]
    IN IF n < 2 THEN "ValueError"
       ELSE IF longest # 11 \/ second_longest # 8 THEN "reject"
       ELSE IF position_longest = n THEN "IndexError"
       ELSE IF before # 8 \/ words_len[position_longest + 1] # 8 THEN "reject"
       ELSE "accept"

\* Candidate(candidate_sentence).validate(letter_bank, c1663): "True", "False"
\* or the exception raised; `vocab` is the word list of the Solver
Candidate_validate(s) ==
    LET sentence == CandidateParseFrom(s, 1, << <<>> >>)
        words_len == [i \in DOMAIN sentence |-> Len(sentence[i])]
        rule == CandidateWordLengths(words_len)
    IN IF ~CounterEq([Counter(s) EXCEPT ![" "] = 0], letter_bank) THEN "False"
       ELSE IF \E i \in DOMAIN sentence :
                  sentence[i] # <<>> /\ ~InVocabulary(sentence[i])
       THEN "False"
       ELSE IF ~c1663 THEN "True"
       ELSE IF sentence[1] # <<"I">> THEN "False"
       ELSE IF rule = "reject" THEN "False"
       ELSE IF rule = "accept" THEN "True"
       ELSE rule

\* Candidate(leaf).validate(letters, c1663) is called on a leaf
CandidateValidate ==
    /\ pc = "idle"
    /\ op.name = "none"
    /\ \E leaf \in Leaves :
          op' = Call("Candidate.validate", [NoRow EXCEPT !.placed = leaf],
                     [outcome |-> Candidate_validate(leaf)])
    /\ UNCHANGED store
    /\ UNCHANGED solverVars

\* the calls on leaves, in any order
NextLeaf ==
    \/ AssessLeaf
    \/ ValidatePunctuated
    \/ CandidateValidate

SpecLeaf ==
    InitLeaf /\ [][NextLeaf]_vars


\* the one-character words of a candidate that are not ascii letters, in order
PunctuationOf(s) ==
    LET IsMark(w) == Len(w) = 1 /\ ~IsAsciiLetter(w[1])
    IN SelectSeq(parse_sentence(s), IsMark)

\* x is a prefix of : , ! !
IsExpectedPrefix(x) ==
    LET expected == << <<":">>, <<",">>, <<"!">>, <<"!">> >>
    IN Len(x) <= Len(expected) /\ SubSeq(expected, 1, Len(x)) = x

WordLengthRule(words) ==
    LET n == Len(words)
    IN \A i \in 1..n :
          Len(words[i]) > 8
              => /\ Len(words[i]) = 11
                 /\ \/ i = n
                    \/ i > 1 /\ Len(words[i - 1]) = 8
                    \/ i < n /\ Len(words[i + 1]) = 8

\* what Candidate.validate tests before its word length rule
ReachesWordLengths(s) ==
    LET words == parse_sentence(s)
    IN /\ CounterEq([Counter(s) EXCEPT ![" "] = 0], letter_bank)
       /\ \A i \in DOMAIN words : InVocabulary(words[i])
       /\ words[1] = <<"I">>

\* C33: a c1663 candidate that reaches the word length rule is accepted exactly
\* when every word longer than 8 characters is 11 characters long and is the
\* last word or has a word of length 8 before or after it.
C33_WordLengthRule ==
    (c1663 /\ op.name = "Candidate.validate" /\ ReachesWordLengths(op.row.placed))
        => (op.ret.outcome = "True" <=> WordLengthRule(parse_sentence(op.row.placed)))


----------------------------------------------------------------------------
(* Claims about status: what it leaves alone *)

\* a row without its status
WithoutStatus(r) ==
    [r EXCEPT !.status = OK]

\* C34: status(p, s) changes at most the status of the row of p: its remaining,
\* parent and scores, every stored descendant of p and every other row are as
\* before, and no row is added or deleted.
C34_StatusChangesOnlyStatus ==
    [][StatusStep =>
         LET p == op'.row.placed
         IN /\ {r \in store' : r.placed # p} = {r \in store : r.placed # p}
            /\ {WithoutStatus(r) : r \in get(store', p)}
                 = {WithoutStatus(r) : r \in get(store, p)}
            /\ StoreLen(store') = StoreLen(store)]_vars

\* status has marked a row whose stored descendant keeps another status
C34_Witness ==
    /\ op.name = "status"
    /\ op.ret >= 1
    /\ \E r \in get(store, op.row.placed) : r.status = op.row.status
    /\ \E r \in store :
          /\ StrictDescendant(r.placed, op.row.placed)
          /\ r.status # op.row.status


----------------------------------------------------------------------------
(* Claims about the weights of selection *)

\* the weights as stated: mean_score of a stored child, EXPLORATION_SCORE of an
\* unexplored one, each moved up by abs(min) + 1
StatedWeights(explored_vocab, node) ==
    LET valid_vocab == compute_valid_vocab(letter_bank)
        children == {NewCandidate(node, valid_vocab[k]) : k \in DOMAIN valid_vocab}
        stored(c) == {e \in explored_vocab : e.placed = c}
        considered == {c \in children : \A e \in stored(c) : e.status = OK}
        raw(c) == IF stored(c) = {} THEN EXPLORATION_SCORE
                  ELSE (CHOOSE e \in stored(c) : TRUE).mean_score
        least == CHOOSE x \in {raw(c) : c \in considered} :
                    \A c \in considered : x <= raw(c)
        shift == (IF least < 0 THEN -least ELSE least) + 1
    IN {[placed |-> c, weight |-> raw(c) + shift] : c \in considered}

\* C36: in each selection step the weight of a stored OK child is its stored
\* mean_score and the weight of an unexplored child is EXPLORATION_SCORE, each
\* moved up by abs(minimum) + 1, so that every weight is at least 1.
C36_SelectionWeights ==
    (pc = "selection" /\ get(store, candidate) # {})
        => \A explored_vocab \in ExploredVocabs(store, candidate) :
              /\ SelectionWeights(explored_vocab, candidate)
                   = StatedWeights(explored_vocab, candidate)
              /\ \A w \in SelectionWeights(explored_vocab, candidate) : w.weight >= 1


----------------------------------------------------------------------------
(* Claims about the iteration budget *)

\* C37: the iteration budget is per run: whenever solve is called, whatever
\* earlier calls on the same Solver did, the loop starts with no iteration
\* counted, so the call makes its own selections, up to max_iterations of
\* them, before it returns None.
C37_BudgetIsPerRun ==
    [][(pc = "idle" /\ pc' = "loop") => current_iteration' = 0]_vars


----------------------------------------------------------------------------
(* Claims about the leaves of expansion in general mode *)

\* C40: in general mode a leaf of expansion that passes soft validation uses
\* all letters of the bank and passes hard validation, so assessment gives
\* -infinity and INVALID only to a leaf that fails soft validation.
C40_SoftValidLeafIsSolution ==
    (~c1663 /\ pc = "push")
        => /\ soft_validate(candidate)
                => /\ CounterEq(Frag(candidate).letters, letter_bank)
                   /\ hard_validate(candidate)
           /\ \A i \in DOMAIN updated_candidates :
                 LET entry == updated_candidates[i]
                 IN (entry.status = INVALID \/ entry.mean_score = NegInf)
                        => ~soft_validate(entry.placed)


\* a leaf that passes soft validation was assessed: it uses the whole bank and
\* is recorded with +infinity
C40_Witness ==
    /\ ~c1663
    /\ pc = "push"
    /\ soft_validate(candidate)
    /\ hard_validate(candidate)
    /\ \E i \in DOMAIN updated_candidates :
          /\ updated_candidates[i].placed = candidate
          /\ updated_candidates[i].mean_score = PosInf


----------------------------------------------------------------------------
(* Claims about the parents of stored rows *)

\* C39: after any series of solver iterations, trim and status calls on a
\* store that was empty at first, every stored row with a non-empty parent has
\* the row of its parent stored.
C39_ParentsAreStored ==
    \A r \in store : r.parent # <<>> => get(store, r.parent) # {}

====
